---- MODULE Spec2Model ----
(***************************************************************************)
(* Audio playback of the performance list: one AudioPlayer per             *)
(* PerformanceCard, coordinated by PerformanceList.                        *)
(*                                                                         *)
(* A card object is a pair <<track, generation>>: PerformanceList.render   *)
(* throws the card objects of the previous generation away and builds new  *)
(* ones, while promise continuations of the old objects may still run.     *)
(* Every await of the source is a separate action; the synchronous part of *)
(* a handler and the microtask continuation that follows a resolved        *)
(* promise are one action.  A load() that fails is part of SpecLoad only;  *)
(* SpecEngine adds direct calls of pause(), SpecBadge the end time badge,   *)
(* SpecStore the saving of a reported duration, SpecForm the time inputs   *)
(* of the form, SpecFormat formatTime, SpecEnd a media clock that runs.    *)
(***************************************************************************)
EXTENDS Integers, Sequences, FiniteSets, TLC

\* ---------------------------------------------------------------- bounds
MaxRenders == 1          \* re-renders of the list that are explored
Duration == 3            \* length of every media resource, in seconds
MaxTenths == 12          \* dense range of the fade-delay inputs, in 0.1 s
MaxTimers == 2           \* fade timers pending at once

\* ------------------------------------------------------- program constants
fadeOutDuration == 5     \* 0.5 s, in tenths of a second

Tracks == {"A", "B"}
TrackOrder == <<"A", "B">>
NoTrack == "none"

\* this.performance of each card: startOffset and endTime in seconds, and the
\* fade options handlePlay derives from it (fadeIn !== false, fadeOut !== false)
Performances ==
  [A |-> [startOffset |-> 0, endTime |-> 0, fadeIn |-> TRUE, fadeOut |-> TRUE],
   B |-> [startOffset |-> 1, endTime |-> 2, fadeIn |-> FALSE, fadeOut |-> FALSE]]

Generations == 0..MaxRenders
Cards == Tracks \X Generations

\* the null that calculateFadeOutDelay returns when no fade-out is scheduled
Disabled == -1

VARIABLES
  performances,        \* ids of the performances the list renders
  gen,                 \* number of renders so far; cards of this generation are in the list
  currentlyPlayingId,  \* PerformanceList.currentlyPlayingId
  audioPlayer,         \* card.audioPlayer !== null
  uiStatus,            \* what updateAudioUI last showed: "ready", "playing", "paused"
  loading,             \* handlePlay is awaiting audioPlayer.load()
  audioElement,        \* player.audioElement !== null (gainNode likewise)
  gain,                \* the last value or ramp given to gainNode.gain; "none" without gainNode
  operations,          \* history: the steps of the last fresh play() of the player, in order
  isPlaying,           \* player.isPlaying
  isPaused,            \* player.isPaused
  startOffset,         \* player.startOffset
  elPaused,            \* audioElement.paused
  elError,             \* audioElement.error !== null: the element fired 'error'
  currentTime,         \* audioElement.currentTime, seconds
  seeking,             \* a play() is awaiting seekTo()
  starting,            \* a play() is awaiting audioElement.play()
  fadeTimers,          \* pending setTimeout(resolve, 500) of fadeOut(), oldest first
  raised,              \* a continuation of the player threw (TypeError on null)
  lastOp,              \* history: the last operation called on the player
  stopOverFade,        \* history: stop() ran while a pause() fade was pending, no play()/pause() since
  fdIn,                \* input <<currentTime, endTimeSeconds, startOffset>> of the delay computation
  fdOut,               \* <<its result>>, or <<>> before the computation
  badgeIn,             \* input <<performances, playbackInfo>> of updateEndTimeBadge
  badgeOut,            \* <<its totalSeconds>>, or <<>> before the computation
  perfDuration,        \* perf.duration of each performance in the store, 0 when unknown
  saving,              \* ids whose handleDurationLoaded is awaiting updatePerformance()
  fields,              \* PerformanceForm.fields: the values of the four time inputs
  audioDuration,       \* PerformanceForm.audioDuration, seconds, 0 when unknown
  enabled,             \* the time inputs of the form are enabled
  pendingFile,         \* <<duration>> of the file whose getAudioDuration() is awaited, else <<>>
  ftIn,                \* argument of formatTime: a number in tenths of a second, NaN or Infinity
  ftOut                \* <<its result>>, the characters of the string, or <<>> before the call

vars == <<performances, gen, currentlyPlayingId, audioPlayer, uiStatus, loading,
          audioElement, isPlaying, isPaused, startOffset, elPaused, currentTime,
          seeking, starting, fadeTimers, raised, lastOp, stopOverFade, fdIn, fdOut,
          elError, badgeIn, badgeOut, perfDuration, saving, fields, audioDuration,
          enabled, pendingFile, ftIn, ftOut, gain, operations>>

listVars == <<performances, gen>>
cardVars == <<audioPlayer, uiStatus, loading>>
flagVars == <<isPlaying, isPaused, startOffset>>
mediaVars == <<elPaused, currentTime>>
awaitVars == <<seeking, starting>>
fdVars == <<fdIn, fdOut>>
badgeVars == <<badgeIn, badgeOut>>
storeVars == <<perfDuration, saving>>
formVars == <<fields, audioDuration, enabled, pendingFile>>
ftVars == <<ftIn, ftOut>>

\* ------------------------------------------------------------- helpers
\* the card is in PerformanceList.cards
Current(c) == c[2] = gen /\ c[1] \in performances
CurrentCards == {c \in Cards : Current(c)}

\* card.isCurrentlyPlaying, set by updateAudioUI
isCurrentlyPlaying(c) == uiStatus[c] = "playing"

\* play button shown / pause button shown / slider shown, as updateAudioUI leaves them
playBtnShown(c) == uiStatus[c] # "playing"
pauseBtnShown(c) == uiStatus[c] = "playing"
sliderShown(c) == uiStatus[c] # "ready"

\* AudioPlayer.getCurrentTime(): the clock of the element, 0 without element
getCurrentTime(c) == IF ~audioElement[c] THEN 0 ELSE currentTime[c]

\* AudioPlayer.getDuration(): the duration of the element, 0 without element
getDuration(c) == IF ~audioElement[c] THEN 0 ELSE Duration

\* getEffectiveCurrentTime(audioCurrentTime, startOffset, isPlaying) of the
\* offset time reporting tests
getEffectiveCurrentTime(audioCurrentTime, offset, playing) ==
  IF playing /\ audioCurrentTime < offset THEN offset ELSE audioCurrentTime

\* the null that getPlaybackInfo and getCurrentPlaybackInfo return
NoInfo == <<>>

\* a faulty variant: the remaining time is not floored at 0
getPlaybackInfoNoFloor(c) ==
  IF ~audioPlayer[c] \/ ~isCurrentlyPlaying(c) THEN NoInfo
  ELSE LET endTimeSeconds == Performances[c[1]].endTime
           effectiveEnd == IF endTimeSeconds > 0 THEN endTimeSeconds ELSE getDuration(c)
       IN <<[id |-> c[1], currentTime |-> getCurrentTime(c), duration |-> getDuration(c),
             endTimeSeconds |-> endTimeSeconds,
             remaining |-> effectiveEnd - getCurrentTime(c)]>>

\* PerformanceCard.getPlaybackInfo(): <<the record>>, or NoInfo for null
getPlaybackInfo(c) ==
  IF ~audioPlayer[c] \/ ~isCurrentlyPlaying(c) THEN NoInfo
  ELSE LET endTimeSeconds == Performances[c[1]].endTime
           effectiveEnd == IF endTimeSeconds > 0 THEN endTimeSeconds ELSE getDuration(c)
           left == effectiveEnd - getCurrentTime(c)
       IN <<[id |-> c[1], currentTime |-> getCurrentTime(c), duration |-> getDuration(c),
             endTimeSeconds |-> endTimeSeconds,
             remaining |-> IF left > 0 THEN left ELSE 0]>>

\* PerformanceList.getCurrentPlaybackInfo()
getCurrentPlaybackInfo ==
  IF currentlyPlayingId = NoTrack THEN NoInfo
  ELSE LET c == <<currentlyPlayingId, gen>>
       IN IF Current(c) THEN getPlaybackInfo(c) ELSE NoInfo

\* the status branch updateAudioUI takes for a snapshot
updateAudioUIKeepsPlaying(playing, paused) ==
  IF playing \/ paused THEN "playing" ELSE "ready"

updateAudioUI(playing, paused) ==
  IF playing THEN "playing" ELSE IF paused THEN "paused" ELSE "ready"

AllKinds == {"pause", "stop", "handleStop"}

TimersOf(c, kinds) ==
  {i \in 1..Len(fadeTimers) : fadeTimers[i].card = c /\ fadeTimers[i].kind \in kinds}

PausePending(c) == TimersOf(c, {"pause"}) # {}

\* room for n more fade timers
Room(n) == Len(fadeTimers) + n <= MaxTimers

\* the history after stop() was called on the cards in S
MarkStop(sof, S) ==
  [c \in Cards |-> IF c \in S /\ PausePending(c) THEN TRUE ELSE sof[c]]

\* the history after play() or pause() was called on card c
MarkOp(sof, c) == [sof EXCEPT ![c] = FALSE]

Called(ops, S, op) == [c \in Cards |-> IF c \in S THEN op ELSE ops[c]]

\* a faulty variant: the test "endTime <= startOffset" is dropped
calculateFadeOutDelayNoOffsetCheck(t, e, o) ==
  IF e <= 0 THEN Disabled
  ELSE LET delayMs == (e - fadeOutDuration - t) * 100
       IN IF delayMs <= 0 THEN 0 ELSE delayMs

\* calculateFadeOutDelay(currentTime, endTimeSeconds, startOffset) of the
\* end-time scheduling tests; times in tenths of a second, the result in ms
calculateFadeOutDelay(t, e, o) ==
  IF e <= 0 THEN Disabled
  ELSE IF e <= o THEN Disabled
  ELSE LET fadeOutStartTime == e - fadeOutDuration
           delayMs == (fadeOutStartTime - t) * 100
       IN IF delayMs <= 0 THEN 0 ELSE delayMs

\* a faulty variant: the list stops no other card
StoppedOthersNone(id, i) == <<>>

\* cards.forEach(... card.stopPlayback()): the cards of the list, other than
\* id, whose player is playing get stop(), which starts a fade-out
RECURSIVE StoppedOthers(_, _)
StoppedOthers(id, i) ==
  IF i > Len(TrackOrder) THEN <<>>
  ELSE LET c == <<TrackOrder[i], gen>>
       IN (IF Current(c) /\ TrackOrder[i] # id /\ audioPlayer[c] /\ isPlaying[c]
           THEN <<[card |-> c, kind |-> "stop"]>> ELSE <<>>)
          \o StoppedOthers(id, i + 1)

\* a faulty variant: a play-stopped notification clears the active track
\* whatever track it is about
handlePlayStateChangeAnyClear(id, playing, timers, ops, sof, g) ==
  IF playing
  THEN LET stops == StoppedOthers(id, 1)
           S == {stops[i].card : i \in 1..Len(stops)}
       IN /\ fadeTimers' = timers \o stops
          /\ currentlyPlayingId' = id
          /\ lastOp' = Called(ops, S, "stop")
          /\ stopOverFade' = MarkStop(sof, S)
          /\ gain' = [c \in Cards |-> IF c \in S THEN "rampToZero" ELSE g[c]]
  ELSE /\ fadeTimers' = timers
       /\ currentlyPlayingId' = NoTrack
       /\ lastOp' = ops
       /\ stopOverFade' = sof
       /\ gain' = g

\* PerformanceList.handlePlayStateChange(id, playing), given the timers, the
\* history and the gains so far; stop() on a playing card starts its fadeOut()
handlePlayStateChange(id, playing, timers, ops, sof, g) ==
  IF playing
  THEN LET stops == StoppedOthers(id, 1)
           S == {stops[i].card : i \in 1..Len(stops)}
       IN /\ fadeTimers' = timers \o stops
          /\ currentlyPlayingId' = id
          /\ lastOp' = Called(ops, S, "stop")
          /\ stopOverFade' = MarkStop(sof, S)
          /\ gain' = [c \in Cards |-> IF c \in S THEN "rampToZero" ELSE g[c]]
  ELSE /\ fadeTimers' = timers
       /\ currentlyPlayingId' = IF currentlyPlayingId = id THEN NoTrack ELSE currentlyPlayingId
       /\ lastOp' = ops
       /\ stopOverFade' = sof
       /\ gain' = g

\* a faulty variant: resuming seeks back to the start offset
resumePositionOffset(c) == Performances[c[1]].startOffset

\* the position audioElement.play() resumes from in the resume branch of play()
resumePosition(c) == currentTime[c]

\* AudioPlayer.play(offsetSeconds), called by handlePlay of card c, up to its
\* first await; the resume branch has no await and runs to the end of handlePlay
play(c) ==
  LET offset == Performances[c[1]].startOffset IN
  IF ~audioElement[c]
  THEN \* early return; handlePlay goes on to onPlayStateChange(id, true)
       /\ handlePlayStateChange(c[1], TRUE, fadeTimers, lastOp, stopOverFade, gain)
       /\ UNCHANGED <<flagVars, mediaVars, awaitVars, uiStatus, operations>>
  ELSE IF isPaused[c]
  THEN \* resume from the pause position
       /\ elPaused' = [elPaused EXCEPT ![c] = FALSE]
       /\ currentTime' = [currentTime EXCEPT ![c] = resumePosition(c)]
       /\ isPaused' = [isPaused EXCEPT ![c] = FALSE]
       /\ isPlaying' = [isPlaying EXCEPT ![c] = TRUE]
       /\ uiStatus' = [uiStatus EXCEPT ![c] = updateAudioUI(TRUE, FALSE)]
       /\ handlePlayStateChange(c[1], TRUE, fadeTimers,
                                Called(lastOp, {c}, "resume"), MarkOp(stopOverFade, c),
                                [gain EXCEPT ![c] = "rampToOne"])
       /\ UNCHANGED <<startOffset, awaitVars, operations>>
  ELSE \* start from offset
       /\ startOffset' = [startOffset EXCEPT ![c] = offset]
       /\ gain' = [gain EXCEPT ![c] = "zero"]
       /\ IF offset > 0
          THEN /\ currentTime' = [currentTime EXCEPT ![c] = offset]
               /\ seeking' = [seeking EXCEPT ![c] = TRUE]
               /\ operations' = [operations EXCEPT ![c] = <<"setGain0", "setCurrentTime">>]
               /\ UNCHANGED <<elPaused, starting>>
          ELSE /\ elPaused' = [elPaused EXCEPT ![c] = FALSE]
               /\ starting' = [starting EXCEPT ![c] = TRUE]
               /\ operations' = [operations EXCEPT ![c] = <<"setGain0", "play">>]
               /\ UNCHANGED <<currentTime, seeking>>
       /\ lastOp' = Called(lastOp, {c}, "play")
       /\ stopOverFade' = MarkOp(stopOverFade, c)
       /\ UNCHANGED <<isPlaying, isPaused, uiStatus, fadeTimers, currentlyPlayingId>>

\* a number given to formatTime: a finite one in tenths of a second, NaN,
\* or an infinite one
Finite(tenths) == [kind |-> "finite", tenths |-> tenths]
NaN == [kind |-> "NaN", tenths |-> 0]
Infinity == [kind |-> "Infinity", tenths |-> 0]

\* ------------------------------------------------------------- initial state
InitCards ==
  /\ gen = 0
  /\ currentlyPlayingId = NoTrack
  /\ audioPlayer = [c \in Cards |-> FALSE]
  /\ uiStatus = [c \in Cards |-> "ready"]
  /\ loading = [c \in Cards |-> FALSE]
  /\ audioElement = [c \in Cards |-> FALSE]
  /\ gain = [c \in Cards |-> "none"]
  /\ operations = [c \in Cards |-> <<>>]
  /\ isPlaying = [c \in Cards |-> FALSE]
  /\ isPaused = [c \in Cards |-> FALSE]
  /\ startOffset = [c \in Cards |-> 0]
  /\ elPaused = [c \in Cards |-> TRUE]
  /\ elError = [c \in Cards |-> FALSE]
  /\ currentTime = [c \in Cards |-> 0]
  /\ seeking = [c \in Cards |-> FALSE]
  /\ starting = [c \in Cards |-> FALSE]
  /\ fadeTimers = <<>>
  /\ raised = [c \in Cards |-> FALSE]
  /\ lastOp = [c \in Cards |-> "none"]
  /\ stopOverFade = [c \in Cards |-> FALSE]
  /\ perfDuration = [t \in Tracks |-> 0]
  /\ saving = {}
  /\ fields = [offsetMin |-> 0, offsetSec |-> 0, endTimeMin |-> 0, endTimeSec |-> 0]
  /\ audioDuration = 0
  /\ enabled = FALSE
  /\ pendingFile = <<>>
  /\ ftOut = <<>>

\* a list of two performances
Init ==
  /\ performances = Tracks
  /\ InitCards
  /\ fdIn = <<0, 0, 0>>
  /\ fdOut = <<>>
  /\ badgeIn = <<>>
  /\ badgeOut = <<>>
  /\ ftIn = Finite(0)

\* ------------------------------------------------------------- actions

\* click on the play button, first time: new AudioPlayer, await load()
ClickPlayLoad(c) ==
  /\ Current(c) /\ playBtnShown(c)
  /\ ~audioPlayer[c]
  /\ audioPlayer' = [audioPlayer EXCEPT ![c] = TRUE]
  /\ audioElement' = [audioElement EXCEPT ![c] = TRUE]
  /\ loading' = [loading EXCEPT ![c] = TRUE]
  /\ gain' = [gain EXCEPT ![c] = "one"]
  /\ UNCHANGED <<listVars, currentlyPlayingId, uiStatus, flagVars, mediaVars, awaitVars,
                 fadeTimers, raised, lastOp, stopOverFade, fdVars,
                 badgeVars, elError, storeVars, formVars, ftVars, operations>>

\* click on the play button, first time, and initContext() throws inside
\* load() because no AudioContext can be made: the card keeps the new
\* player, which has no element, and handlePlay catches the error
ClickPlayLoadThrows(c) ==
  /\ Current(c) /\ playBtnShown(c)
  /\ ~audioPlayer[c]
  /\ audioPlayer' = [audioPlayer EXCEPT ![c] = TRUE]
  /\ UNCHANGED <<listVars, currentlyPlayingId, uiStatus, loading, audioElement, flagVars,
                 mediaVars, awaitVars, fadeTimers, raised, lastOp, stopOverFade, fdVars,
                 badgeVars, elError, storeVars, formVars, ftVars, gain, operations>>

\* 'error' on the element: load() rejects with 'Failed to load audio' and
\* handlePlay catches it; the player keeps its element
LoadReject(c) ==
  /\ loading[c]
  /\ loading' = [loading EXCEPT ![c] = FALSE]
  /\ elError' = [elError EXCEPT ![c] = TRUE]
  /\ UNCHANGED <<listVars, currentlyPlayingId, audioPlayer, uiStatus, audioElement, flagVars,
                 mediaVars, awaitVars, fadeTimers, raised, lastOp, stopOverFade, fdVars,
                 badgeVars, storeVars, formVars, ftVars, gain, operations>>

\* click on the play button of a card that has a player: play() at once.
\* Several play() calls awaiting the same 'seeked' event or the same batch of
\* play promises go on together, so one flag per await stands for them all.
ClickPlay(c) ==
  /\ Current(c) /\ playBtnShown(c)
  /\ audioPlayer[c]
  /\ Room(Len(StoppedOthers(c[1], 1)))
  /\ play(c)
  /\ UNCHANGED <<listVars, audioPlayer, loading, audioElement, raised, fdVars,
                 badgeVars, elError, storeVars, formVars, ftVars>>

\* 'canplaythrough': load() resolves and handlePlay goes on
LoadResolve(c) ==
  /\ loading[c]
  /\ Room(Len(StoppedOthers(c[1], 1)))
  /\ loading' = [loading EXCEPT ![c] = FALSE]
  /\ IF ~audioPlayer[c]
     THEN \* this.audioPlayer is null: TypeError, caught by handlePlay
          UNCHANGED <<currentlyPlayingId, uiStatus, flagVars, mediaVars, awaitVars,
                      fadeTimers, lastOp, stopOverFade, gain, operations>>
     ELSE play(c)
  /\ \* the duration is reported before play(): handleDurationLoaded starts
     \* and awaits updatePerformance()
     saving' = IF audioPlayer[c] /\ getDuration(c) > 0 THEN saving \cup {c[1]} ELSE saving
  /\ UNCHANGED <<listVars, audioPlayer, audioElement, raised, fdVars,
                 badgeVars, elError, perfDuration, formVars, ftVars>>

\* 'seeked': onSeeked resolves seekTo(), play() goes on to audioElement.play()
SeekDone(c) ==
  /\ seeking[c]
  /\ seeking' = [seeking EXCEPT ![c] = FALSE]
  /\ IF audioElement[c]
     THEN /\ elPaused' = [elPaused EXCEPT ![c] = FALSE]
          /\ starting' = [starting EXCEPT ![c] = TRUE]
          /\ operations' = [operations EXCEPT ![c] = Append(@, "play")]
          /\ UNCHANGED raised
     ELSE \* this.audioElement.removeEventListener on null
          /\ raised' = [raised EXCEPT ![c] = TRUE]
          /\ UNCHANGED <<elPaused, starting, operations>>
  /\ UNCHANGED <<listVars, currentlyPlayingId, cardVars, audioElement, flagVars,
                 currentTime, fadeTimers, lastOp, stopOverFade, fdVars,
                 badgeVars, elError, storeVars, formVars, ftVars, gain>>

\* the promise of audioElement.play() resolves: fadeIn, isPlaying, notifyStatus,
\* then handlePlay calls onPlayStateChange(id, true)
PlayStarted(c) ==
  /\ starting[c]
  /\ Room(Len(StoppedOthers(c[1], 1)))
  /\ starting' = [starting EXCEPT ![c] = FALSE]
  /\ isPlaying' = [isPlaying EXCEPT ![c] = TRUE]
  /\ uiStatus' = [uiStatus EXCEPT ![c] = updateAudioUI(TRUE, isPaused[c])]
  /\ handlePlayStateChange(c[1], TRUE, fadeTimers, lastOp, stopOverFade,
                           [gain EXCEPT ![c] = "rampToOne"])
  /\ operations' = [operations EXCEPT ![c] = Append(@, "fadeIn")]
  /\ UNCHANGED <<listVars, audioPlayer, loading, audioElement, isPaused, startOffset,
                 mediaVars, seeking, raised, fdVars,
                 badgeVars, elError, storeVars, formVars, ftVars>>

\* the promise of audioElement.play() is rejected, because the element was
\* paused meanwhile (AbortError) or has no usable source after an 'error':
\* play() throws, handlePlay catches
PlayRejected(c) ==
  /\ starting[c] /\ (elPaused[c] \/ elError[c])
  /\ starting' = [starting EXCEPT ![c] = FALSE]
  /\ UNCHANGED <<listVars, currentlyPlayingId, cardVars, audioElement, flagVars,
                 mediaVars, seeking, fadeTimers, raised, lastOp, stopOverFade, fdVars,
                 badgeVars, elError, storeVars, formVars, ftVars, gain, operations>>

\* click on the pause button: pause() up to await fadeOut().
\* pause() on a player that is not playing returns without any effect.
ClickPause(c) ==
  /\ Current(c) /\ pauseBtnShown(c)
  /\ audioPlayer[c]
  /\ isPlaying[c] /\ audioElement[c]
  /\ Room(1)
  /\ fadeTimers' = Append(fadeTimers, [card |-> c, kind |-> "pause"])
  /\ gain' = [gain EXCEPT ![c] = "rampToZero"]
  /\ lastOp' = Called(lastOp, {c}, "pause")
  /\ stopOverFade' = MarkOp(stopOverFade, c)
  /\ UNCHANGED <<listVars, currentlyPlayingId, cardVars, audioElement, flagVars,
                 mediaVars, awaitVars, raised, fdVars,
                 badgeVars, elError, storeVars, formVars, ftVars, operations>>

\* the fade timer of a pause() fires: the rest of pause()
PauseFadeDone(c) ==
  /\ fadeTimers # <<>>
  /\ Head(fadeTimers) = [card |-> c, kind |-> "pause"]
  /\ fadeTimers' = Tail(fadeTimers)
  /\ IF audioElement[c]
     THEN /\ elPaused' = [elPaused EXCEPT ![c] = TRUE]
          /\ isPaused' = [isPaused EXCEPT ![c] = TRUE]
          /\ isPlaying' = [isPlaying EXCEPT ![c] = FALSE]
          /\ uiStatus' = [uiStatus EXCEPT ![c] = updateAudioUI(FALSE, TRUE)]
          /\ UNCHANGED raised
     ELSE \* this.audioElement.pause() on null
          /\ raised' = [raised EXCEPT ![c] = TRUE]
          /\ UNCHANGED <<elPaused, isPaused, isPlaying, uiStatus>>
  /\ UNCHANGED <<listVars, currentlyPlayingId, audioPlayer, loading, audioElement,
                 startOffset, currentTime, awaitVars, lastOp, stopOverFade, fdVars,
                 badgeVars, elError, storeVars, formVars, ftVars, gain, operations>>

\* a faulty variant: pause() without its guard starts a fade-out all the same
PauseAlways(c) ==
  /\ audioPlayer[c]
  /\ ~(isPlaying[c] /\ audioElement[c])
  /\ Room(1)
  /\ fadeTimers' = Append(fadeTimers, [card |-> c, kind |-> "pause"])
  /\ lastOp' = Called(lastOp, {c}, "pauseReturned")
  /\ stopOverFade' = MarkOp(stopOverFade, c)
  /\ UNCHANGED <<listVars, currentlyPlayingId, cardVars, audioElement, flagVars,
                 mediaVars, awaitVars, raised, fdVars, badgeVars, elError, storeVars, formVars, ftVars, gain, operations>>

\* pause() called on a player that is not playing or has no element: the
\* guard returns at once.  The pause button of the card is hidden in these
\* states, so this is the method called by its owner, not a click.
PauseNotPlaying(c) ==
  /\ audioPlayer[c]
  /\ ~(isPlaying[c] /\ audioElement[c])
  /\ lastOp' = Called(lastOp, {c}, "pauseReturned")
  /\ stopOverFade' = MarkOp(stopOverFade, c)
  /\ UNCHANGED <<listVars, currentlyPlayingId, cardVars, audioElement, flagVars,
                 mediaVars, awaitVars, fadeTimers, raised, fdVars, badgeVars, elError, storeVars, formVars, ftVars, gain, operations>>

\* the part of stop() after the fade: halt, rewind, clear the flags, notifyStatus
stopNow(c) ==
  /\ elPaused' = [elPaused EXCEPT ![c] = TRUE]
  /\ currentTime' = [currentTime EXCEPT ![c] = 0]
  /\ isPlaying' = [isPlaying EXCEPT ![c] = FALSE]
  /\ isPaused' = [isPaused EXCEPT ![c] = FALSE]
  /\ uiStatus' = [uiStatus EXCEPT ![c] = updateAudioUI(FALSE, FALSE)]

\* a faulty variant: stop() leaves the gain as the fade-out left it
keepGain(c) == gain

\* "Reset gain" of stop(): gain.setValueAtTime(1, now)
resetGain(c) == [gain EXCEPT ![c] = "one"]

\* click on the stop button: handleStop, stop() up to await fadeOut(), or to
\* its end and on to onPlayStateChange(id, false) when the player is not playing
ClickStop(c) ==
  /\ Current(c)
  /\ audioPlayer[c]
  /\ IF ~audioElement[c]
     THEN /\ handlePlayStateChange(c[1], FALSE, fadeTimers, lastOp, stopOverFade, gain)
          /\ UNCHANGED <<uiStatus, isPlaying, isPaused, mediaVars>>
     ELSE IF isPlaying[c]
     THEN /\ Room(1)
          /\ fadeTimers' = Append(fadeTimers, [card |-> c, kind |-> "handleStop"])
          /\ gain' = [gain EXCEPT ![c] = "rampToZero"]
          /\ lastOp' = Called(lastOp, {c}, "stop")
          /\ stopOverFade' = MarkStop(stopOverFade, {c})
          /\ UNCHANGED <<currentlyPlayingId, uiStatus, isPlaying, isPaused, mediaVars>>
     ELSE /\ stopNow(c)
          /\ handlePlayStateChange(c[1], FALSE, fadeTimers,
                                   Called(lastOp, {c}, "stop"), MarkStop(stopOverFade, {c}),
                                   resetGain(c))
  /\ UNCHANGED <<listVars, audioPlayer, loading, audioElement, startOffset, awaitVars,
                 raised, fdVars,
                 badgeVars, elError, storeVars, formVars, ftVars, operations>>

\* the fade timer of a stop() fires: the rest of stop(); for a stop() that
\* handleStop awaited, onPlayStateChange(id, false) follows
StopFadeDone(c) ==
  /\ fadeTimers # <<>>
  /\ Head(fadeTimers).card = c
  /\ Head(fadeTimers).kind \in {"stop", "handleStop"}
  /\ IF audioElement[c]
     THEN /\ stopNow(c)
          /\ IF Head(fadeTimers).kind = "handleStop"
             THEN handlePlayStateChange(c[1], FALSE, Tail(fadeTimers), lastOp, stopOverFade,
                                        resetGain(c))
             ELSE /\ fadeTimers' = Tail(fadeTimers)
                  /\ gain' = resetGain(c)
                  /\ UNCHANGED <<currentlyPlayingId, lastOp, stopOverFade>>
          /\ UNCHANGED raised
     ELSE \* this.audioElement.pause() on null
          /\ raised' = [raised EXCEPT ![c] = TRUE]
          /\ fadeTimers' = Tail(fadeTimers)
          /\ UNCHANGED <<currentlyPlayingId, uiStatus, isPlaying, isPaused, mediaVars,
                         lastOp, stopOverFade, gain>>
  /\ UNCHANGED <<listVars, audioPlayer, loading, audioElement, startOffset, awaitVars,
                 fdVars,
                 badgeVars, elError, storeVars, formVars, ftVars, operations>>

\* the media clock advances while the element is not paused and not at its end
Tick(c) ==
  /\ audioElement[c] /\ ~elPaused[c]
  /\ currentTime[c] < Duration
  /\ currentTime' = [currentTime EXCEPT ![c] = @ + 1]
  /\ UNCHANGED <<listVars, currentlyPlayingId, cardVars, audioElement, flagVars, elPaused,
                 awaitVars, fadeTimers, raised, lastOp, stopOverFade, fdVars,
                 badgeVars, elError, storeVars, formVars, ftVars, gain, operations>>

\* releasing the slider: handleSliderSeek calls seekTo(newTime)
SliderSeek(c, t) ==
  /\ Current(c) /\ sliderShown(c)
  /\ audioPlayer[c]
  /\ t # currentTime[c]
  /\ currentTime' = [currentTime EXCEPT ![c] = t]
  /\ lastOp' = Called(lastOp, {c}, "seek")
  /\ UNCHANGED <<listVars, currentlyPlayingId, cardVars, audioElement, flagVars, elPaused,
                 awaitVars, fadeTimers, raised, stopOverFade, fdVars,
                 badgeVars, elError, storeVars, formVars, ftVars, gain, operations>>

\* PerformanceList.render: card.destroy() for every card of the list, which is
\* player.destroy() = stop(true) then dropping the element; then new cards
Render ==
  /\ gen < MaxRenders
  /\ gen' = gen + 1
  /\ LET D == {c \in CurrentCards : audioPlayer[c]}
         H == {c \in D : audioElement[c]}
     IN /\ elPaused' = [c \in Cards |-> IF c \in H THEN TRUE ELSE elPaused[c]]
        /\ currentTime' = [c \in Cards |-> IF c \in H THEN 0 ELSE currentTime[c]]
        /\ isPlaying' = [c \in Cards |-> IF c \in H THEN FALSE ELSE isPlaying[c]]
        /\ isPaused' = [c \in Cards |-> IF c \in H THEN FALSE ELSE isPaused[c]]
        /\ uiStatus' = [c \in Cards |-> IF c \in H THEN updateAudioUI(FALSE, FALSE)
                                        ELSE uiStatus[c]]
        /\ audioElement' = [c \in Cards |-> IF c \in D THEN FALSE ELSE audioElement[c]]
        /\ gain' = [c \in Cards |-> IF c \in D THEN "none" ELSE gain[c]]
        /\ audioPlayer' = [c \in Cards |-> IF c \in D THEN FALSE ELSE audioPlayer[c]]
        /\ lastOp' = Called(lastOp, D, "destroy")
        /\ stopOverFade' = MarkStop(stopOverFade, H)
  /\ UNCHANGED <<performances, currentlyPlayingId, loading, startOffset, awaitVars,
                 fadeTimers, raised, fdVars,
                 badgeVars, elError, storeVars, formVars, ftVars, operations>>

\* the operations of the list between two renders; no branch of them reads
\* the media clock
Next ==
  \/ \E c \in Cards : ClickPlayLoad(c)
  \/ \E c \in Cards : LoadResolve(c)
  \/ \E c \in Cards : ClickPlay(c)
  \/ \E c \in Cards : SeekDone(c)
  \/ \E c \in Cards : PlayStarted(c)
  \/ \E c \in Cards : PlayRejected(c)
  \/ \E c \in Cards : ClickPause(c)
  \/ \E c \in Cards : PauseFadeDone(c)
  \/ \E c \in Cards : ClickStop(c)
  \/ \E c \in Cards : StopFadeDone(c)

Spec == Init /\ [][Next]_vars

\* a timer of fadeOut() fires: setTimeout callbacks always run
TimerFires == \E c \in Cards : PauseFadeDone(c) \/ StopFadeDone(c)

\* the list of two performances, with timers that fire
SpecFair == Init /\ [][Next]_vars /\ WF_vars(TimerFires)

\* ------------------------------------------------- one card, media clock
InitCard ==
  /\ performances = {"B"}
  /\ InitCards
  /\ fdIn = <<0, 0, 0>>
  /\ fdOut = <<>>
  /\ badgeIn = <<>>
  /\ badgeOut = <<>>
  /\ ftIn = Finite(0)

NextCard ==
  \/ Next
  \/ \E c \in Cards : Tick(c)
  \/ \E c \in Cards, t \in 0..Duration : SliderSeek(c, t)

SpecCard == InitCard /\ [][NextCard]_vars

\* ------------------------------------------------------ one card, re-render
NextRender ==
  \/ Next
  \/ Render

SpecRender == InitCard /\ [][NextRender]_vars

\* --------------------------- one card, either performance, media clock
InitOne ==
  /\ performances \in {{"A"}, {"B"}}
  /\ InitCards
  /\ fdIn = <<0, 0, 0>>
  /\ fdOut = <<>>
  /\ badgeIn = <<>>
  /\ badgeOut = <<>>
  /\ ftIn = Finite(0)

SpecOne == InitOne /\ [][NextCard]_vars

\* one card whose media runs: the clock of a playing element advances, the
\* promises of load(), seekTo() and audioElement.play() settle, timers fire
MediaRuns ==
  \E c \in Cards : Tick(c) \/ LoadResolve(c) \/ SeekDone(c) \/ PlayStarted(c)
                     \/ PlayRejected(c)

SpecEnd == InitOne /\ [][NextCard]_vars /\ WF_vars(TimerFires) /\ WF_vars(MediaRuns)

\* --------------------------------------------- one card, loads that fail
NextLoad ==
  \/ Next
  \/ \E c \in Cards : ClickPlayLoadThrows(c)
  \/ \E c \in Cards : LoadReject(c)

SpecLoad == InitCard /\ [][NextLoad]_vars

\* ------------------------------- one card, the methods of its player called
NextEngine ==
  \/ NextCard
  \/ \E c \in Cards : PauseNotPlaying(c)

SpecEngine == InitCard /\ [][NextEngine]_vars

\* ------------------------------------------------ the fade delay computation
FdValues == (0..MaxTenths) \cup {50, 100, 195, 198, 200}

InitDelay ==
  /\ performances = {}
  /\ InitCards
  /\ fdIn \in FdValues \X FdValues \X FdValues
  /\ fdOut = <<>>
  /\ badgeIn = <<>>
  /\ badgeOut = <<>>
  /\ ftIn = Finite(0)

ComputeDelay ==
  /\ fdOut = <<>>
  /\ fdOut' = <<calculateFadeOutDelay(fdIn[1], fdIn[2], fdIn[3])>>
  /\ UNCHANGED <<listVars, currentlyPlayingId, cardVars, audioElement, flagVars,
                 mediaVars, awaitVars, fadeTimers, raised, lastOp, stopOverFade, fdIn,
                 badgeVars, elError, storeVars, formVars, ftVars, gain, operations>>

NextDelay == ComputeDelay

SpecDelay == InitDelay /\ [][NextDelay]_vars

\* ------------------------------------------------- the end time badge
\* seconds added for every pending performance
Overhead == 25

\* the performances of the store: offsets and end times as the server keeps
\* them (parsed integers, not checked against each other), the stored
\* duration (0 when unknown), and the done mark
BadgePerformances ==
  [id : Tracks, startOffset : 0..Duration, endTime : 0..Duration,
   duration : {0, Duration}, isOver : BOOLEAN]

\* what getCurrentPlaybackInfo() may answer: null, or the id and the
\* remaining time of the card that plays
BadgeInfos ==
  {NoInfo} \cup {<<[id |-> i, remaining |-> r]>> : i \in Tracks, r \in 0..Duration}

\* effectiveDuration of one performance in updateEndTimeBadge
effectiveDuration(perf) ==
  IF perf.endTime > 0 THEN perf.endTime - perf.startOffset
  ELSE IF perf.duration > 0 THEN perf.duration - perf.startOffset
  ELSE 0

\* the loop of updateEndTimeBadge over the performances from index i on
RECURSIVE totalSeconds(_, _, _)
totalSeconds(perfs, playbackInfo, i) ==
  IF i > Len(perfs) THEN 0
  ELSE LET perf == perfs[i]
           rest == totalSeconds(perfs, playbackInfo, i + 1)
       IN IF perf.isOver THEN rest
          ELSE IF playbackInfo # NoInfo /\ playbackInfo[1].id = perf.id
          THEN Overhead + playbackInfo[1].remaining + rest
          ELSE Overhead + effectiveDuration(perf) + rest

\* App.updateEndTimeBadge(): whether an end time is shown, and the
\* totalSeconds it is computed from
updateEndTimeBadge(perfs, playbackInfo) ==
  IF \A i \in 1..Len(perfs) : perfs[i].isOver
  THEN [shown |-> FALSE, totalSeconds |-> 0]
  ELSE [shown |-> TRUE, totalSeconds |-> totalSeconds(perfs, playbackInfo, 1)]

InitBadge ==
  /\ performances = {}
  /\ InitCards
  /\ fdIn = <<0, 0, 0>>
  /\ fdOut = <<>>
  /\ badgeIn \in {<<<<p, q>>, info>> :
                    p \in {x \in BadgePerformances : x.id = "A"},
                    q \in {x \in BadgePerformances : x.id = "B"},
                    info \in BadgeInfos}
  /\ badgeOut = <<>>
  /\ ftIn = Finite(0)

ComputeBadge ==
  /\ badgeOut = <<>>
  /\ badgeOut' = <<updateEndTimeBadge(badgeIn[1], badgeIn[2])>>
  /\ UNCHANGED <<listVars, currentlyPlayingId, cardVars, audioElement, flagVars,
                 mediaVars, awaitVars, fadeTimers, raised, lastOp, stopOverFade, fdVars,
                 badgeIn, elError, storeVars, formVars, ftVars, gain, operations>>

NextBadge == ComputeBadge

SpecBadge == InitBadge /\ [][NextBadge]_vars

\* ------------------------------------ one card, the duration it reports
\* store.getState().performances as updateEndTimeBadge reads it, given the
\* stored durations
RECURSIVE storePerformances(_, _)
storePerformances(dur, i) ==
  IF i > Len(TrackOrder) THEN <<>>
  ELSE LET t == TrackOrder[i]
       IN (IF t \in performances
           THEN <<[id |-> t, startOffset |-> Performances[t].startOffset,
                   endTime |-> Performances[t].endTime, duration |-> dur[t],
                   isOver |-> FALSE]>>
           ELSE <<>>)
          \o storePerformances(dur, i + 1)

\* a faulty variant: the duration goes through store.updatePerformance(),
\* whose notify() makes the list render again and destroy its cards
DurationSavedViaStore(t) ==
  /\ t \in saving
  /\ gen < MaxRenders
  /\ saving' = saving \ {t}
  /\ perfDuration' = [perfDuration EXCEPT ![t] = Duration]
  /\ gen' = gen + 1
  /\ LET D == {c \in CurrentCards : audioPlayer[c]}
         H == {c \in D : audioElement[c]}
     IN /\ elPaused' = [c \in Cards |-> IF c \in H THEN TRUE ELSE elPaused[c]]
        /\ currentTime' = [c \in Cards |-> IF c \in H THEN 0 ELSE currentTime[c]]
        /\ isPlaying' = [c \in Cards |-> IF c \in H THEN FALSE ELSE isPlaying[c]]
        /\ isPaused' = [c \in Cards |-> IF c \in H THEN FALSE ELSE isPaused[c]]
        /\ uiStatus' = [c \in Cards |-> IF c \in H THEN updateAudioUI(FALSE, FALSE)
                                        ELSE uiStatus[c]]
        /\ audioElement' = [c \in Cards |-> IF c \in D THEN FALSE ELSE audioElement[c]]
        /\ gain' = [c \in Cards |-> IF c \in D THEN "none" ELSE gain[c]]
        /\ audioPlayer' = [c \in Cards |-> IF c \in D THEN FALSE ELSE audioPlayer[c]]
        /\ lastOp' = Called(lastOp, D, "destroy")
        /\ stopOverFade' = MarkStop(stopOverFade, H)
  /\ UNCHANGED <<performances, currentlyPlayingId, loading, startOffset, awaitVars,
                 fadeTimers, raised, fdVars, badgeVars, elError, formVars, ftVars, operations>>

\* updatePerformance() of handleDurationLoaded resolves: the duration is
\* written into the performance object of the store, in place, and the end
\* time badge is computed again
DurationSaved(t) ==
  /\ t \in saving
  /\ saving' = saving \ {t}
  /\ perfDuration' = IF t \in performances THEN [perfDuration EXCEPT ![t] = Duration]
                     ELSE perfDuration
  /\ badgeIn' = <<storePerformances(perfDuration', 1), getCurrentPlaybackInfo>>
  /\ badgeOut' = <<updateEndTimeBadge(storePerformances(perfDuration', 1),
                                      getCurrentPlaybackInfo)>>
  /\ UNCHANGED <<listVars, currentlyPlayingId, cardVars, audioElement, flagVars,
                 mediaVars, awaitVars, fadeTimers, raised, lastOp, stopOverFade, fdVars,
                 elError, formVars, ftVars, gain, operations>>

\* updatePerformance() of handleDurationLoaded rejects: the error is logged
DurationSaveFailed(t) ==
  /\ t \in saving
  /\ saving' = saving \ {t}
  /\ UNCHANGED <<listVars, currentlyPlayingId, cardVars, audioElement, flagVars,
                 mediaVars, awaitVars, fadeTimers, raised, lastOp, stopOverFade, fdVars,
                 badgeVars, elError, perfDuration, formVars, ftVars, gain, operations>>

NextStore ==
  \/ Next
  \/ \E t \in Tracks : DurationSaved(t)
  \/ \E t \in Tracks : DurationSaveFailed(t)

SpecStore == InitOne /\ [][NextStore]_vars

\* ------------------------------------------- the time inputs of the form
MaxMinutes == 1          \* largest value entered into a minutes input

\* the values entered into a seconds input
SecondsEntered == {0, 30, 59}

\* Math.floor(audio.duration) of the files that are chosen; 0 stands for a
\* file whose duration cannot be read
FileDurations == {0, 50, 90}

totalOffset(f) == f.offsetMin * 60 + f.offsetSec

totalEndTime(f) == f.endTimeMin * 60 + f.endTimeSec

\* PerformanceForm.validateEndTime(): the fields it leaves
validateEndTime(f, dur) ==
  IF totalEndTime(f) = 0 THEN f
  ELSE LET minEndTime == totalOffset(f) + 1
           g == IF totalEndTime(f) <= totalOffset(f)
                THEN [f EXCEPT !.endTimeMin = minEndTime \div 60,
                               !.endTimeSec = minEndTime % 60]
                ELSE f
       IN IF dur > 0 /\ totalEndTime(f) > dur
          THEN [g EXCEPT !.endTimeMin = dur \div 60, !.endTimeSec = dur % 60]
          ELSE g

\* PerformanceForm.validateOffsets(): the fields it leaves
validateOffsets(f, dur) ==
  IF dur <= 0 THEN f
  ELSE LET maxOffset == dur - 1
           g == IF totalOffset(f) >= dur
                THEN [f EXCEPT !.offsetMin = maxOffset \div 60,
                               !.offsetSec = maxOffset % 60]
                ELSE f
       IN validateEndTime(g, dur)

formUnchanged ==
  UNCHANGED <<listVars, currentlyPlayingId, cardVars, audioElement, flagVars,
              mediaVars, awaitVars, fadeTimers, raised, lastOp, stopOverFade, fdVars,
              badgeVars, elError, storeVars, ftVars, gain, operations>>

\* showEdit(performance) for a performance with a music file: populateForm
\* enables the inputs without a duration and fills in the stored values
ShowEdit(om, os, em, es) ==
  /\ fields' = [offsetMin |-> om, offsetSec |-> os, endTimeMin |-> em, endTimeSec |-> es]
  /\ audioDuration' = 0
  /\ enabled' = TRUE
  /\ UNCHANGED pendingFile
  /\ formUnchanged

\* showCreate(): resetForm, the inputs are disabled and reset
ShowCreate ==
  /\ fields' = [offsetMin |-> 0, offsetSec |-> 0, endTimeMin |-> 0, endTimeSec |-> 0]
  /\ audioDuration' = 0
  /\ enabled' = FALSE
  /\ UNCHANGED pendingFile
  /\ formUnchanged

\* a file is chosen: handleFileChange resets the offsets and awaits
\* getAudioDuration(file)
FileChange(d) ==
  /\ pendingFile = <<>>
  /\ fields' = [fields EXCEPT !.offsetMin = 0, !.offsetSec = 0]
  /\ pendingFile' = <<d>>
  /\ UNCHANGED <<audioDuration, enabled>>
  /\ formUnchanged

\* getAudioDuration() settles: the duration, or 0 when the file could not
\* be read, is kept and the inputs are enabled
FileLoaded ==
  /\ pendingFile # <<>>
  /\ audioDuration' = pendingFile[1]
  /\ enabled' = TRUE
  /\ pendingFile' = <<>>
  /\ UNCHANGED fields
  /\ formUnchanged

\* 'change' on the minutes input of the offset
ChangeOffsetMin(m) ==
  /\ enabled /\ m # fields.offsetMin
  /\ fields' = validateOffsets([fields EXCEPT !.offsetMin = m], audioDuration)
  /\ UNCHANGED <<audioDuration, enabled, pendingFile>>
  /\ formUnchanged

\* 'change' on the seconds input of the offset
ChangeOffsetSec(sec) ==
  /\ enabled /\ sec # fields.offsetSec
  /\ fields' = validateOffsets([fields EXCEPT !.offsetSec = sec], audioDuration)
  /\ UNCHANGED <<audioDuration, enabled, pendingFile>>
  /\ formUnchanged

\* 'change' on the minutes input of the end time
ChangeEndTimeMin(m) ==
  /\ enabled /\ m # fields.endTimeMin
  /\ fields' = validateEndTime([fields EXCEPT !.endTimeMin = m], audioDuration)
  /\ UNCHANGED <<audioDuration, enabled, pendingFile>>
  /\ formUnchanged

\* 'change' on the seconds input of the end time
ChangeEndTimeSec(sec) ==
  /\ enabled /\ sec # fields.endTimeSec
  /\ fields' = validateEndTime([fields EXCEPT !.endTimeSec = sec], audioDuration)
  /\ UNCHANGED <<audioDuration, enabled, pendingFile>>
  /\ formUnchanged

NextForm ==
  \/ \E om \in 0..MaxMinutes, os \in SecondsEntered,
        em \in 0..MaxMinutes, es \in SecondsEntered : ShowEdit(om, os, em, es)
  \/ ShowCreate
  \/ \E d \in FileDurations : FileChange(d)
  \/ FileLoaded
  \/ \E m \in 0..MaxMinutes : ChangeOffsetMin(m)
  \/ \E sec \in SecondsEntered : ChangeOffsetSec(sec)
  \/ \E m \in 0..MaxMinutes : ChangeEndTimeMin(m)
  \/ \E sec \in SecondsEntered : ChangeEndTimeSec(sec)

InitForm ==
  /\ performances = {}
  /\ InitCards
  /\ fdIn = <<0, 0, 0>>
  /\ fdOut = <<>>
  /\ badgeIn = <<>>
  /\ badgeOut = <<>>
  /\ ftIn = Finite(0)

SpecForm == InitForm /\ [][NextForm]_vars

\* ------------------------------------------------------------ formatTime
MaxFormatTenths == 90    \* dense range of the formatTime arguments, in 0.1 s

DigitChars == <<"0", "1", "2", "3", "4", "5", "6", "7", "8", "9">>

\* Number.prototype.toString() of a natural number, as its characters
RECURSIVE toString(_)
toString(n) ==
  IF n < 10 THEN <<DigitChars[n + 1]>>
  ELSE toString(n \div 10) \o <<DigitChars[(n % 10) + 1]>>

\* String.prototype.padStart(targetLength, "0")
RECURSIVE padStart(_, _)
padStart(str, targetLength) ==
  IF Len(str) >= targetLength THEN str ELSE padStart(<<"0">> \o str, targetLength)

\* a faulty variant: the seconds are not padded
formatTimeNoPad(seconds) ==
  IF seconds.kind # "finite" THEN <<"0", ":", "0", "0">>
  ELSE toString(seconds.tenths \div 600) \o <<":">> \o toString((seconds.tenths % 600) \div 10)

\* AudioPlayer.formatTime(seconds)
formatTime(seconds) ==
  IF seconds.kind = "NaN" \/ seconds.kind # "finite" THEN <<"0", ":", "0", "0">>
  ELSE LET mins == seconds.tenths \div 600
           secs == (seconds.tenths % 600) \div 10
       IN toString(mins) \o <<":">> \o padStart(toString(secs), 2)

FormatValues ==
  {Finite(t) : t \in (0..MaxFormatTenths) \cup {599, 600, 650, 655, 900, 1200, 5999, 6000, 36000}}
    \cup {NaN, Infinity}

InitFormat ==
  /\ performances = {}
  /\ InitCards
  /\ fdIn = <<0, 0, 0>>
  /\ fdOut = <<>>
  /\ badgeIn = <<>>
  /\ badgeOut = <<>>
  /\ ftIn \in FormatValues

ComputeFormat ==
  /\ ftOut = <<>>
  /\ ftOut' = <<formatTime(ftIn)>>
  /\ UNCHANGED <<listVars, currentlyPlayingId, cardVars, audioElement, flagVars,
                 mediaVars, awaitVars, fadeTimers, raised, lastOp, stopOverFade, fdVars,
                 badgeVars, elError, storeVars, formVars, ftIn, gain, operations>>

NextFormat == ComputeFormat

SpecFormat == InitFormat /\ [][NextFormat]_vars

\* the setInterval callback of startTimeUpdate refreshes statusEl and the
\* slider: the interval exists after updateAudioUI showed Playing, and its
\* callback acts when the card has a player that is playing
timeUpdateDelivers(c) == isCurrentlyPlaying(c) /\ audioPlayer[c] /\ isPlaying[c]

\* ------------------------------------------------------------------ claims
StopKinds == {"stop", "handleStop"}

\* the cards of the list whose player reports Playing
PlayingCards == {c \in CurrentCards : audioPlayer[c] /\ isPlaying[c]}

\* a fade-out of a stop() is in progress on some card of the list
StopFadePending == \E c \in CurrentCards : TimersOf(c, StopKinds) # {}

\* no continuation of the player of card c is pending
Quiescent(c) ==
  TimersOf(c, AllKinds) = {} /\ ~seeking[c] /\ ~starting[c] /\ ~loading[c]

\* no load() or play() of the player of card c is in flight
Settled(c) == ~seeking[c] /\ ~starting[c] /\ ~loading[c]

EngineState(c) ==
  IF ~audioElement[c] THEN "Idle"
  ELSE IF isPlaying[c] THEN "Playing"
  ELSE IF isPaused[c] THEN "Paused"
  ELSE IF loading[c] THEN "Loading"
  ELSE "Stopped"

\* the cutoff of the card's performance is one the fade scheduling accepts
ValidCutoff(c) ==
  calculateFadeOutDelay(0, 10 * Performances[c[1]].endTime, 10 * startOffset[c]) # Disabled

\* C1: among the cards of the list, at most one player that is not in the
\* fade-out of a stop() reports Playing; so whenever no stop fade-out is in
\* progress at most one card is Playing, and any overlap is the fade-out of
\* the players the coordinator has told to stop.
C1_AtMostOnePlaying ==
  Cardinality({c \in PlayingCards : TimersOf(c, StopKinds) = {}}) <= 1

\* C1 witness: the hand-off is over: one card plays, the coordinator names
\* it, and the other card, which played before, was stopped by a stop().
C1_Witness ==
  /\ ~StopFadePending
  /\ \E c \in CurrentCards, d \in CurrentCards :
       /\ c # d
       /\ PlayingCards = {c}
       /\ currentlyPlayingId = c[1]
       /\ lastOp[d] = "stop" /\ audioElement[d] /\ ~isPlaying[d] /\ Quiescent(d)

\* C2: outside a hand-off fade-out, currentlyPlayingId is non-null exactly
\* when exactly one player of the list is Playing, and then names its card.
C2_ActiveIffPlaying ==
  ~StopFadePending =>
    /\ (currentlyPlayingId # NoTrack) <=> (Cardinality(PlayingCards) = 1)
    /\ currentlyPlayingId # NoTrack => PlayingCards = {<<currentlyPlayingId, gen>>}

AllowedEdge(from, to) ==
  \/ from = to
  \/ from = "Idle" /\ to = "Loading"
  \/ from = "Loading" /\ to = "Stopped"
  \/ from \in {"Stopped", "Paused"} /\ to = "Playing"
  \/ from = "Playing" /\ to = "Paused"
  \/ from \in {"Playing", "Paused"} /\ to = "Stopped"

\* C3: isPlaying and isPaused are never both true, and every change of a
\* player's state is one of the allowed edges Idle-Loading-Stopped-Playing,
\* Playing-Paused-Playing, Playing/Paused-Stopped; in particular no step
\* leads from Loading to Playing.
C3_StateMachine ==
  /\ [](\A c \in Cards : ~(isPlaying[c] /\ isPaused[c]))
  /\ [][\A c \in Cards : AllowedEdge(EngineState(c), EngineState(c)')]_vars

C5_StopWins ==
  /\ [](\A c \in Cards : stopOverFade[c] /\ Quiescent(c) /\ audioElement[c] =>
          ~isPlaying[c] /\ ~isPaused[c] /\ currentTime[c] = 0)
  /\ [][\A c \in Cards :
          stopOverFade[c] /\ PausePending(c) /\ Head(fadeTimers).card = c
            /\ Head(fadeTimers).kind = "pause" /\ fadeTimers' = Tail(fadeTimers)
          => UNCHANGED <<isPlaying[c], isPaused[c], elPaused[c], currentTime[c],
                         uiStatus[c]>>]_vars

\* C6: after destroy() the player has no pending timer, is neither Playing
\* nor Paused, has shown no Playing or Paused status to its card, and none
\* of its continuations has thrown.
C6_DestroyTerminal ==
  \A c \in Cards : lastOp[c] = "destroy" =>
    /\ TimersOf(c, AllKinds) = {}
    /\ ~isPlaying[c] /\ ~isPaused[c]
    /\ uiStatus[c] = "ready"
    /\ ~raised[c]

\* C7: after play(offset, endTime) with a valid cutoff and no pause, stop,
\* seek or destroy since, the player is never Playing at a position beyond
\* endTime.
C7_StopsAtEndTime ==
  \A c \in Cards :
    lastOp[c] = "play" /\ ValidCutoff(c) /\ isPlaying[c]
      => currentTime[c] <= Performances[c[1]].endTime

\* C9: a play() from Paused with a valid cutoff whose fade-out delay from the
\* position at resume is 0 does not leave the player Playing.
C9_ResumePastCutoff ==
  [][\A c \in Cards :
       /\ isPaused[c] /\ ~isPaused'[c] /\ lastOp'[c] = "resume"
       /\ ValidCutoff(c)
       /\ calculateFadeOutDelay(10 * currentTime[c], 10 * Performances[c[1]].endTime,
                                10 * startOffset[c]) = 0
       => ~isPlaying'[c]]_vars

C10_RoundTrip ==
  [][\A c \in Cards :
       isPaused[c] /\ ~isPlaying[c] /\ Settled(c) =>
         /\ isPaused'[c] /\ ~(\E t \in 0..Duration : SliderSeek(c, t))
              => currentTime'[c] = currentTime[c]
         /\ isPlaying'[c] => currentTime'[c] = currentTime[c] /\ ~seeking'[c]]_vars

\* C10 witness: a player that was resumed is Playing past its non-zero offset.
C10_Witness ==
  \E c \in Cards :
    /\ lastOp[c] = "resume" /\ isPlaying[c] /\ ~isPaused[c]
    /\ startOffset[c] > 0 /\ currentTime[c] > startOffset[c]

\* C11: the currentTime a player reports (getCurrentTime, and with it every
\* status snapshot) is the start offset while the player is playing and the
\* media clock is below the offset, and the media clock otherwise.
C11_EffectiveTime ==
  \A c \in Cards :
    audioElement[c] =>
      getCurrentTime(c) = getEffectiveCurrentTime(currentTime[c], startOffset[c], isPlaying[c])

\* C12: pause() on a player that is Paused, and stop() on a player that is
\* Stopped with nothing in flight, change neither the flags, the element,
\* the position, the status shown nor the pending timers, and raise nothing.
C12_NoOps ==
  [][\A c \in Cards :
       (\/ isPaused[c] /\ ~isPlaying[c] /\ PauseNotPlaying(c)
        \/ EngineState(c) = "Stopped" /\ Quiescent(c) /\ ClickStop(c))
       => /\ UNCHANGED <<audioElement[c], isPlaying[c], isPaused[c], startOffset[c],
                         elPaused[c], currentTime[c], uiStatus[c]>>
          /\ UNCHANGED <<fadeTimers, raised>>]_vars

\* C12 witness: pause() was called on a Paused player and returned; the
\* player is still Paused at its position, with nothing pending.
C12_Witness ==
  \E c \in Cards :
    /\ lastOp[c] = "pauseReturned"
    /\ isPaused[c] /\ ~isPlaying[c] /\ Quiescent(c)
    /\ currentTime[c] > 0

\* C13: play() on a player that has no element fails with an error that
\* reaches handlePlay, so handlePlay does not go on to report the card as
\* playing to the list.
C13_PlayUnloadedFails ==
  [][\A c \in Cards :
       audioPlayer[c] /\ ~audioElement[c] /\ ClickPlay(c)
       => currentlyPlayingId' = currentlyPlayingId]_vars

\* C14: after a load() that failed the player has no element attached (it
\* is Idle), and it is not Playing.
C14_LoadFailureIdle ==
  \A c \in Cards : elError[c] => ~audioElement[c] /\ ~isPlaying[c]

\* C15: in the step in which card b becomes Playing while another card a of
\* the list is Playing, the list has called stop() on a (its fade-out is
\* pending afterwards) and names b as the active track; and a player the
\* list has told to stop eventually is Stopped.
C15_HandOff ==
  /\ [][\A a \in CurrentCards, b \in CurrentCards :
          /\ a # b
          /\ audioPlayer[a] /\ isPlaying[a] /\ TimersOf(a, StopKinds) = {}
          /\ ~isPlaying[b] /\ isPlaying'[b]
          => /\ currentlyPlayingId' = b[1]
             /\ lastOp'[a] = "stop"
             /\ \E i \in 1..Len(fadeTimers') :
                  fadeTimers'[i] = [card |-> a, kind |-> "stop"]]_vars
  /\ \A a \in Cards :
       (TimersOf(a, {"stop"}) # {}) ~> (audioElement[a] /\ ~isPlaying[a] /\ ~isPaused[a])

\* C15 witness: the hand-off is under way: b is Playing and named by the
\* list, a is still Playing with the fade-out of the list's stop() pending.
C15_Witness ==
  \E a \in CurrentCards, b \in CurrentCards :
    /\ a # b
    /\ isPlaying[a] /\ isPlaying[b]
    /\ currentlyPlayingId = b[1]
    /\ lastOp[a] = "stop"
    /\ TimersOf(a, {"stop"}) # {} /\ TimersOf(a, {"pause", "handleStop"}) = {}

\* C16: a play-stopped notification of card c (handleStop after its stop())
\* sets currentlyPlayingId to null when it names c's track and leaves it
\* unchanged otherwise, late notifications included.
C16_StaleStopIgnored ==
  [][\A c \in Cards :
       (\/ ClickStop(c) /\ ~isPlaying[c]
        \/ StopFadeDone(c) /\ audioElement[c] /\ Head(fadeTimers).kind = "handleStop")
       => currentlyPlayingId' =
            IF currentlyPlayingId = c[1] THEN NoTrack ELSE currentlyPlayingId]_vars

\* C16 witness: the notification of a's handleStop came after the list had
\* made b the active track and told a to stop: a is Stopped, the fade-out of
\* the list's stop() on a is still pending, and b is still the active track.
C16_Witness ==
  \E a \in CurrentCards, b \in CurrentCards :
    /\ a # b
    /\ currentlyPlayingId = b[1] /\ isPlaying[b]
    /\ audioElement[a] /\ ~isPlaying[a] /\ ~isPaused[a]
    /\ TimersOf(a, {"stop"}) # {} /\ TimersOf(a, {"pause", "handleStop"}) = {}

\* C17: the cutoff given to play() survives pause(): a player that was
\* resumed from Paused, with a valid cutoff and no seek, stop or destroy
\* since, is never Playing at a position beyond endTime.
C17_CutoffSurvivesPause ==
  \A c \in Cards :
    lastOp[c] = "resume" /\ ValidCutoff(c) /\ isPlaying[c]
      => currentTime[c] <= Performances[c[1]].endTime

\* C18: getPlaybackInfo() is null unless the card's player is Playing; when
\* it is Playing the record names the card and its remaining is
\* max(0, effectiveEnd - position) for the position at the call, with
\* effectiveEnd = endTime when endTime > 0 and the media duration otherwise,
\* so remaining is never negative; the list hands out that record only.
C18_PlaybackInfo ==
  /\ \A c \in CurrentCards :
       LET info == getPlaybackInfo(c)
           e == Performances[c[1]].endTime
           effectiveEnd == IF e > 0 THEN e ELSE Duration
           d == effectiveEnd - currentTime[c]
       IN /\ info # NoInfo => audioPlayer[c] /\ isPlaying[c]
          /\ audioPlayer[c] /\ isPlaying[c] =>
               /\ info # NoInfo
               /\ info[1].id = c[1]
               /\ info[1].remaining = (IF d > 0 THEN d ELSE 0)
               /\ info[1].remaining >= 0
  /\ getCurrentPlaybackInfo # NoInfo =>
       getCurrentPlaybackInfo = getPlaybackInfo(<<currentlyPlayingId, gen>>)

\* C18 witness: the card is Playing beyond its endTime and getPlaybackInfo()
\* answers with remaining 0.
C18_Witness ==
  \E c \in CurrentCards :
    /\ isPlaying[c]
    /\ Performances[c[1]].endTime > 0 /\ currentTime[c] > Performances[c[1]].endTime
    /\ getPlaybackInfo(c) # NoInfo
    /\ getPlaybackInfo(c)[1].remaining = 0

\* C19: the total of the end time badge is, over the performances not
\* marked done, the sum of 25 s plus the remaining time of the playback
\* info for the performance that plays, or max(0, (endTime if set, else the
\* stored duration) - startOffset) for any other; so it is at least 25 s
\* times the number of pending performances.
C19_AggregateRemaining ==
  badgeOut # <<>> /\ badgeOut[1].shown =>
    LET perfs == badgeIn[1]
        info == badgeIn[2]
        pending == {i \in 1..Len(perfs) : ~perfs[i].isOver}
        span(i) == (IF perfs[i].endTime > 0 THEN perfs[i].endTime ELSE perfs[i].duration)
                     - perfs[i].startOffset
        part(i) == IF info # NoInfo /\ info[1].id = perfs[i].id THEN info[1].remaining
                   ELSE IF span(i) > 0 THEN span(i) ELSE 0
        share(i) == IF i \in pending THEN Overhead + part(i) ELSE 0
    IN /\ badgeOut[1].totalSeconds = share(1) + share(2)
       /\ badgeOut[1].totalSeconds >= Overhead * Cardinality(pending)

\* C20: the fade options of the performance are honoured by the player:
\* with fade-out disabled pause() halts the media at once, so no card whose
\* performance has fadeOut false ever waits on the 0.5 s fade timer of a
\* pause().
C20_FadeOptions ==
  \A c \in Cards : ~Performances[c[1]].fadeOut => ~PausePending(c)

\* C21: seekTo(target) keeps the position inside [0, duration): after a
\* seek on a loaded player, whatever the target, the position is at least 0
\* and below the duration.
C21_SeekClamped ==
  [][\A c \in Cards :
       audioElement[c] /\ (\E t \in 0..Duration : SliderSeek(c, t))
       => 0 <= currentTime'[c] /\ currentTime'[c] < Duration]_vars

\* C22: a reported duration is written into the stored performance in
\* place, without a notification of the store: neither the report made
\* after load() nor the write that follows it renders the list again, and
\* the player that was just loaded is neither destroyed nor stopped by them.
C22_DurationReport ==
  /\ [][\A t \in Tracks :
          DurationSaved(t) =>
            /\ perfDuration'[t] = Duration
            /\ UNCHANGED <<gen, audioPlayer, audioElement, isPlaying, isPaused,
                           elPaused, currentTime, uiStatus, fadeTimers, lastOp>>]_vars
  /\ [][\A c \in Cards :
          LoadResolve(c) /\ audioPlayer[c] =>
            /\ c[1] \in saving'
            /\ gen' = gen /\ audioPlayer'[c] /\ audioElement'[c]
            /\ lastOp'[c] \notin {"stop", "destroy"}]_vars

\* C22 witness: the duration the card reported is in the store, and the
\* card's player, loaded before the report, is Playing in the same list.
C22_Witness ==
  \E c \in CurrentCards :
    /\ perfDuration[c[1]] = Duration /\ c[1] \notin saving
    /\ badgeOut # <<>>
    /\ gen = 0 /\ audioPlayer[c] /\ isPlaying[c] /\ lastOp[c] = "play"

\* C23: after the end time validation of the form, run by a change of an
\* end time input, the end time is 0 or greater than the start offset, and
\* not beyond the audio duration when that is known; an entered end time
\* that is not 0 and not greater than the offset becomes offset + 1 s.
C23_EndTimeValidated ==
  [][\A v \in 0..59 :
       ChangeEndTimeMin(v) \/ ChangeEndTimeSec(v) =>
         LET entered == IF ChangeEndTimeMin(v)
                        THEN v * 60 + fields.endTimeSec
                        ELSE fields.endTimeMin * 60 + v
         IN /\ totalEndTime(fields') = 0 \/ totalEndTime(fields') > totalOffset(fields')
            /\ audioDuration > 0 => totalEndTime(fields') <= audioDuration
            /\ entered # 0 /\ entered <= totalOffset(fields)
                 => totalEndTime(fields') = totalOffset(fields) + 1]_vars

\* the number a string of decimal digits stands for
RECURSIVE DigitsValue(_)
DigitsValue(str) ==
  IF str = <<>> THEN 0
  ELSE 10 * DigitsValue(SubSeq(str, 1, Len(str) - 1))
         + (CHOOSE d \in 0..9 : DigitChars[d + 1] = str[Len(str)])

\* C24: for a finite s >= 0 formatTime(s) is floor(s / 60) in decimal, a
\* colon, and floor(s mod 60) as exactly two digits; 65 gives "1:05" and
\* 120 gives "2:00"; NaN and an infinite argument give "0:00".
C24_FormatTime ==
  ftOut # <<>> =>
    LET str == ftOut[1]
        n == Len(str)
        minsPart == SubSeq(str, 1, n - 3)
        secsPart == SubSeq(str, n - 1, n)
    IN /\ n >= 4 /\ str[n - 2] = ":"
       /\ \A i \in 1..n : i # n - 2 => \E d \in 0..9 : str[i] = DigitChars[d + 1]
       /\ Len(minsPart) > 1 => minsPart[1] # "0"
       /\ ftIn.kind = "finite" =>
            /\ DigitsValue(minsPart) * 600 <= ftIn.tenths
            /\ ftIn.tenths < (DigitsValue(minsPart) + 1) * 600
            /\ DigitsValue(secsPart) * 10 <= ftIn.tenths - DigitsValue(minsPart) * 600
            /\ ftIn.tenths - DigitsValue(minsPart) * 600 < (DigitsValue(secsPart) + 1) * 10
       /\ ftIn.kind # "finite" => str = <<"0", ":", "0", "0">>
       /\ ftIn = Finite(650) => str = <<"1", ":", "0", "5">>
       /\ ftIn = Finite(1200) => str = <<"2", ":", "0", "0">>

\* C24 witness: formatTime(65.5) was computed and is "1:05".
C24_Witness == ftIn = Finite(655) /\ ftOut = <<(<<"1", ":", "0", "5">>)>>

\* C25: the step in which a stop() completes on a player with an element
\* leaves it Stopped at position 0 with the media halted and the gain set
\* to 1; a stop() called on a Playing player starts the fade-out and halts
\* nothing before the fade timer has fired, while the immediate stop of
\* destroy() halts the media in the same step and starts no fade-out.
C25_StopCompletes ==
  [][\A c \in Cards :
       /\ (\/ StopFadeDone(c) /\ audioElement[c]
           \/ ClickStop(c) /\ audioElement[c] /\ isPaused[c] /\ ~isPlaying[c])
          => /\ ~isPlaying'[c] /\ ~isPaused'[c]
             /\ elPaused'[c] /\ currentTime'[c] = 0
             /\ gain'[c] = "one"
       /\ ClickStop(c) /\ audioElement[c] /\ isPlaying[c]
          => /\ isPlaying'[c] /\ elPaused'[c] = elPaused[c] /\ currentTime'[c] = currentTime[c]
             /\ gain'[c] = "rampToZero"
             /\ fadeTimers' = Append(fadeTimers, [card |-> c, kind |-> "handleStop"])
       /\ Render /\ Current(c) /\ audioPlayer[c] /\ audioElement[c]
          => /\ elPaused'[c] /\ ~isPlaying'[c] /\ ~isPaused'[c] /\ currentTime'[c] = 0
             /\ gain'[c] # "rampToZero"
             /\ fadeTimers' = fadeTimers]_vars

\* C25 witness: a stop() called on a Playing player, while the fade-out of
\* a pause() was pending, has faded out and completed: the player is
\* Stopped at 0 with gain 1 and nothing pending.
C25_Witness ==
  \E c \in Cards :
    /\ lastOp[c] = "stop" /\ stopOverFade[c] /\ audioElement[c] /\ Quiescent(c)
    /\ EngineState(c) = "Stopped" /\ currentTime[c] = 0 /\ gain[c] = "one"
    /\ startOffset[c] > 0 /\ uiStatus[c] = "ready"

\* C26: a fresh play(offset) takes its steps in this order: gain to 0, seek
\* to the offset (only when offset > 0), start of the media, verification
\* of the position (only when offset > 0), start of the fade-in; the player
\* reports Playing only with the last of these steps.
C26_PlayOrder ==
  [][\A c \in Cards :
       PlayStarted(c) =>
         /\ operations'[c] =
              IF startOffset[c] > 0
              THEN <<"setGain0", "setCurrentTime", "play", "verifyPosition", "fadeIn">>
              ELSE <<"setGain0", "play", "fadeIn">>
         /\ isPlaying'[c]]_vars

\* C27: when the media has been started by a play() with offset > 0 and
\* the position reached is more than 0.5 s below the offset, the player
\* seeks to the offset again before it goes on, so it does not become
\* Playing at a position more than 0.5 s below its offset.
C27_CorrectiveSeek ==
  [][\A c \in Cards :
       PlayStarted(c) /\ startOffset[c] > 0
         /\ 10 * currentTime[c] < 10 * startOffset[c] - 5
       => currentTime'[c] = startOffset[c] \/ seeking'[c]]_vars

C29_OldPlayersSilent ==
  \A c \in Cards : c[2] < gen => ~isPlaying[c]

\* C30: a player without a valid cutoff does not stay Playing once its media
\* has reached the natural end: it is never the case that from some point on
\* the player is Playing, and shown as Playing, at the end of the media.
C30_NaturalEnd ==
  \A c \in Cards :
    Performances[c[1]].endTime <= Performances[c[1]].startOffset =>
      []<>~(audioElement[c] /\ isPlaying[c] /\ isCurrentlyPlaying(c)
              /\ currentTime[c] = Duration)

====
